---------------------------- MODULE Spec2Model ----------------------------
(***************************************************************************)
(* A model of chformat.py: the tolerant record extractor (extract_records) *)
(* and the record formatter (format_record, trim_words, parse_timestamp).  *)
(*                                                                         *)
(* Texts are sequences of one-character strings.  Positions are Python's   *)
(* 0-based offsets: the character at offset i of s is s[i + 1].            *)
(***************************************************************************)
EXTENDS Integers, Sequences, FiniteSets, TLC

(***************************************************************************)
(* Characters and small string helpers (str.strip, str.rstrip,             *)
(* str.splitlines, str.split as the source uses them).                     *)
(***************************************************************************)
NL == "\n"
QUOTE == "\""
WhitespaceChars == {" ", NL}
DigitChars == {"0", "1", "2", "3", "4", "5", "6", "7", "8", "9"}

\* s[i] of Python, "" past either end.
At(s, i) == IF i >= 0 /\ i < Len(s) THEN s[i + 1] ELSE ""

\* s[i:j] of Python for 0 <= i, clipped like a slice.
Slice(s, i, j) == IF j <= i THEN <<>> ELSE SubSeq(s, i + 1, IF j > Len(s) THEN Len(s) ELSE j)

Last(s) == s[Len(s)]

IsBlank(s) == \A k \in 1..Len(s) : s[k] \in WhitespaceChars

RECURSIVE LStrip(_)
LStrip(s) == IF s # <<>> /\ Head(s) \in WhitespaceChars THEN LStrip(Tail(s)) ELSE s

RECURSIVE RStripWs(_)
RStripWs(s) ==
    IF s # <<>> /\ s[Len(s)] \in WhitespaceChars THEN RStripWs(SubSeq(s, 1, Len(s) - 1)) ELSE s

\* str.strip()
Strip(s) == RStripWs(LStrip(s))

\* str.rstrip(","): removes every trailing comma.
RECURSIVE RStripComma(_)
RStripComma(s) ==
    IF s # <<>> /\ s[Len(s)] = "," THEN RStripComma(SubSeq(s, 1, Len(s) - 1)) ELSE s

\* text.strip().rstrip(",") of strategies 2 and 3.
Cleanup(s) == RStripComma(Strip(s))

\* str.splitlines(): the lines between line breaks; no empty last line.
RECURSIVE SplitLinesFrom(_, _, _)
SplitLinesFrom(s, k, cur) ==
    IF k > Len(s) THEN (IF cur = <<>> THEN <<>> ELSE <<cur>>)
    ELSE IF s[k] = NL THEN <<cur>> \o SplitLinesFrom(s, k + 1, <<>>)
    ELSE SplitLinesFrom(s, k + 1, Append(cur, s[k]))

SplitLines(s) == SplitLinesFrom(s, 1, <<>>)

\* str.split(): the maximal runs of non-whitespace characters.
RECURSIVE SplitWordsFrom(_, _, _)
SplitWordsFrom(s, k, cur) ==
    IF k > Len(s) THEN (IF cur = <<>> THEN <<>> ELSE <<cur>>)
    ELSE IF s[k] \in WhitespaceChars
         THEN (IF cur = <<>> THEN <<>> ELSE <<cur>>) \o SplitWordsFrom(s, k + 1, <<>>)
    ELSE SplitWordsFrom(s, k + 1, Append(cur, s[k]))

SplitWords(s) == SplitWordsFrom(s, 1, <<>>)

\* "".join(parts)
RECURSIVE Concat(_)
Concat(parts) == IF parts = <<>> THEN <<>> ELSE Head(parts) \o Concat(Tail(parts))

\* sep.join(parts)
RECURSIVE Join(_, _)
Join(parts, sep) ==
    IF parts = <<>> THEN <<>>
    ELSE IF Len(parts) = 1 THEN parts[1]
    ELSE parts[1] \o sep \o Join(Tail(parts), sep)

(***************************************************************************)
(* The JSON decoder the source calls (json.loads, JSONDecoder.raw_decode), *)
(* modelled by what it does on the characters the model's texts use:       *)
(* objects, arrays, strings without escapes, unsigned integers, null.      *)
(* A decode ends "ok" with a value and the offset after it, "err" with a   *)
(* JSONDecodeError, or "rec" with the interpreter's RecursionError, which  *)
(* is no JSONDecodeError.                                                  *)
(*                                                                         *)
(* A value is [type, items, raw]: its JSON type, the elements of an array  *)
(* and the source characters it was decoded from.                          *)
(***************************************************************************)

\* The nesting depth at which the interpreter refuses to recurse
\* (sys.getrecursionlimit() is 1000), scaled to the texts of the model.
RecursionLimit == 3

NoVal == [type |-> "none", items |-> <<>>, raw |-> <<>>]
Err == [st |-> "err", val |-> NoVal, end |-> 0]
RecErr == [st |-> "rec", val |-> NoVal, end |-> 0]
Ok(v, e) == [st |-> "ok", val |-> v, end |-> e]
Val(t, its, s, i, j) == [type |-> t, items |-> its, raw |-> Slice(s, i, j)]

\* WHITESPACE.match(s, i).end()
RECURSIVE SkipWs(_, _)
SkipWs(s, i) == IF At(s, i) \in WhitespaceChars THEN SkipWs(s, i + 1) ELSE i

\* The offset of the quote closing a string whose content starts at i, or
\* -1: an unterminated string or a control character inside it.
RECURSIVE StringEnd(_, _)
StringEnd(s, i) ==
    IF At(s, i) = QUOTE THEN i
    ELSE IF At(s, i) \in {"", NL} THEN -1
    ELSE StringEnd(s, i + 1)

\* The offset after the integer starting at i: "0", or a run of digits.
RECURSIVE DigitsEnd(_, _)
DigitsEnd(s, i) == IF At(s, i) \in DigitChars THEN DigitsEnd(s, i + 1) ELSE i

NumberEnd(s, i) == IF At(s, i) = "0" THEN i + 1 ELSE DigitsEnd(s, i)

NullLit == <<"n", "u", "l", "l">>

RECURSIVE scan_once(_, _, _)
RECURSIVE JSONArray(_, _, _, _, _)
RECURSIVE JSONObject(_, _, _, _)

\* The elements of an array from offset i on; start is the offset of "[".
JSONArray(s, start, i, d, acc) ==
    LET v == scan_once(s, i, d)
        j == SkipWs(s, v.end)
    IN  IF v.st # "ok" THEN v
        ELSE IF At(s, j) = "]" THEN Ok(Val("list", Append(acc, v.val), s, start, j + 1), j + 1)
        ELSE IF At(s, j) = "," THEN JSONArray(s, start, SkipWs(s, j + 1), d, Append(acc, v.val))
        ELSE Err

\* The members of an object from offset i on; start is the offset of "{".
JSONObject(s, start, i, d) ==
    IF At(s, i) # QUOTE THEN Err
    ELSE LET q == StringEnd(s, i + 1)
             c == SkipWs(s, q + 1)
             v == scan_once(s, SkipWs(s, c + 1), d)
             j == SkipWs(s, v.end)
         IN  IF q < 0 \/ At(s, c) # ":" THEN Err
             ELSE IF v.st # "ok" THEN v
             ELSE IF At(s, j) = "}" THEN Ok(Val("dict", <<>>, s, start, j + 1), j + 1)
             ELSE IF At(s, j) = "," THEN JSONObject(s, start, SkipWs(s, j + 1), d)
             ELSE Err

\* scan_once(s, idx) at nesting depth d.
scan_once(s, idx, d) ==
    LET c == At(s, idx)
    IN  IF c = QUOTE
        THEN LET q == StringEnd(s, idx + 1)
             IN  IF q < 0 THEN Err ELSE Ok(Val("str", <<>>, s, idx, q + 1), q + 1)
        ELSE IF c = "{"
        THEN IF d >= RecursionLimit THEN RecErr
             ELSE LET i == SkipWs(s, idx + 1)
                  IN  IF At(s, i) = "}" THEN Ok(Val("dict", <<>>, s, idx, i + 1), i + 1)
                      ELSE JSONObject(s, idx, i, d + 1)
        ELSE IF c = "["
        THEN IF d >= RecursionLimit THEN RecErr
             ELSE LET i == SkipWs(s, idx + 1)
                  IN  IF At(s, i) = "]" THEN Ok(Val("list", <<>>, s, idx, i + 1), i + 1)
                      ELSE JSONArray(s, idx, i, d + 1, <<>>)
        ELSE IF c = "n"
        THEN IF Slice(s, idx, idx + 4) = NullLit
             THEN Ok(Val("null", <<>>, s, idx, idx + 4), idx + 4) ELSE Err
        ELSE IF c \in DigitChars
        THEN Ok(Val("int", <<>>, s, idx, NumberEnd(s, idx)), NumberEnd(s, idx))
        ELSE Err

\* JSONDecoder.raw_decode(s, idx)
raw_decode(s, idx) == scan_once(s, idx, 0)

\* json.loads(s): one value between optional whitespace, nothing after it.
json_loads(s) ==
    LET r == raw_decode(s, SkipWs(s, 0))
    IN  IF r.st # "ok" THEN r
        ELSE IF SkipWs(s, r.end) # Len(s) THEN Err
        ELSE r

(***************************************************************************)
(* The formatter's pure functions.  A field of a record is a tagged value  *)
(* [kind, s, n]: "absent", "str" with its characters s, "int" with its     *)
(* value n, "null", or "list" with the characters s of its str() form.     *)
(***************************************************************************)
Tagged(kind, s, n) == [kind |-> kind, s |-> s, n |-> n]
Absent == Tagged("absent", <<>>, 0)

DigitChar(d) ==
    CASE d = 0 -> "0" [] d = 1 -> "1" [] d = 2 -> "2" [] d = 3 -> "3" [] d = 4 -> "4"
      [] d = 5 -> "5" [] d = 6 -> "6" [] d = 7 -> "7" [] d = 8 -> "8" [] d = 9 -> "9"

DigitValue(c) == CHOOSE d \in 0..9 : DigitChar(d) = c

\* n as w decimal digits, zero-padded (%02d, %03d, %Y of a 4-digit year).
RECURSIVE Pad(_, _)
Pad(n, w) == IF w = 0 THEN <<>> ELSE Append(Pad(n \div 10, w - 1), DigitChar(n % 10))

\* The decimal digits of n >= 0.
RECURSIVE NatStr(_)
NatStr(n) == IF n < 10 THEN <<DigitChar(n)>> ELSE Append(NatStr(n \div 10), DigitChar(n % 10))

\* str(v) of a field's value.
Str(v) ==
    CASE v.kind = "str" -> v.s
      [] v.kind = "int" -> IF v.n < 0 THEN <<"-">> \o NatStr(-v.n) ELSE NatStr(v.n)
      [] v.kind = "null" -> <<"N", "o", "n", "e">>
      [] v.kind = "list" -> v.s

\* record.get(key, default)
Get(v, default) == IF v.kind = "absent" THEN default ELSE v

RECURSIVE DigitsValue(_, _)
DigitsValue(s, acc) ==
    IF s = <<>> THEN acc ELSE DigitsValue(Tail(s), 10 * acc + DigitValue(Head(s)))

\* int(v): the value of an int, the number a string of digits (with blanks
\* around it and a sign before it) spells; ValueError for any other string,
\* TypeError for None and for a list.
ToInt(v) ==
    LET t == Strip(v.s)
        neg == t # <<>> /\ Head(t) = "-"
        digits == IF t # <<>> /\ Head(t) \in {"-", "+"} THEN Tail(t) ELSE t
    IN  CASE v.kind = "int" -> [ok |-> TRUE, n |-> v.n]
          [] v.kind = "str" ->
                IF digits # <<>> /\ \A k \in 1..Len(digits) : digits[k] \in DigitChars
                THEN [ok |-> TRUE, n |-> IF neg THEN -DigitsValue(digits, 0)
                                         ELSE DigitsValue(digits, 0)]
                ELSE [ok |-> FALSE, n |-> 0]
          [] OTHER -> [ok |-> FALSE, n |-> 0]

\* The civil date of a day number counted from 1970-01-01.
CivilFromDays(days) ==
    LET z == days + 719468
        era == z \div 146097
        doe == z - era * 146097
        yoe == (doe - doe \div 1460 + doe \div 36524 - doe \div 146096) \div 365
        doy == doe - (365 * yoe + yoe \div 4 - yoe \div 100)
        mp == (5 * doy + 2) \div 153
        m == IF mp < 10 THEN mp + 3 ELSE mp - 9
    IN  [year |-> yoe + era * 400 + (IF m <= 2 THEN 1 ELSE 0),
         month |-> m,
         day |-> doy - (153 * mp + 2) \div 5 + 1]

\* parse_timestamp(ts_ms) in a time zone utcoff seconds east of UTC:
\* "YYYY-MM-DD HH:MM:SS.mmm" of the local time, or the error of int().
parse_timestamp(v, utcoff) ==
    LET i == ToInt(v)
        local == (i.n \div 1000) + utcoff
        date == CivilFromDays(local \div 86400)
        sod == local % 86400
    IN  IF ~i.ok THEN [ok |-> FALSE, str |-> <<>>]
        ELSE [ok |-> TRUE,
              str |-> Pad(date.year, 4) \o <<"-">> \o Pad(date.month, 2) \o <<"-">>
                      \o Pad(date.day, 2) \o <<" ">> \o Pad(sod \div 3600, 2) \o <<":">>
                      \o Pad((sod % 3600) \div 60, 2) \o <<":">> \o Pad(sod % 60, 2)
                      \o <<".">> \o Pad(i.n % 1000, 3)]

Ellipsis == <<".", ".", ".">>

\* The mutant of trim_words: trims at equality too.
trim_words_at_equality(txt, max_words) ==
    IF Len(SplitWords(txt)) < max_words THEN txt
    ELSE Join(SubSeq(SplitWords(txt), 1, max_words), <<" ">>) \o Ellipsis

\* trim_words(text, max_words), for max_words >= 0.
trim_words(txt, max_words) ==
    IF Len(SplitWords(txt)) <= max_words THEN txt
    ELSE Join(SubSeq(SplitWords(txt), 1, max_words), <<" ">>) \o Ellipsis

(***************************************************************************)
(* textwrap.wrap(text, width) with the defaults the source leaves in       *)
(* place (replace_whitespace, drop_whitespace, break_long_words), for      *)
(* width > 0 and texts without tabs and hyphens: the chunks are the runs   *)
(* of whitespace and the runs of other characters.                         *)
(***************************************************************************)
\* _munge_whitespace: every whitespace character becomes a blank.
Munge(s) == [k \in 1..Len(s) |-> IF s[k] \in WhitespaceChars THEN " " ELSE s[k]]

RECURSIVE ChunksFrom(_, _, _)
ChunksFrom(s, k, cur) ==
    IF k > Len(s) THEN (IF cur = <<>> THEN <<>> ELSE <<cur>>)
    ELSE IF cur # <<>> /\ ((s[k] = " ") # (Last(cur) = " "))
         THEN <<cur>> \o ChunksFrom(s, k + 1, <<s[k]>>)
    ELSE ChunksFrom(s, k + 1, Append(cur, s[k]))

\* _split_chunks
SplitChunks(s) == ChunksFrom(Munge(s), 1, <<>>)

\* The inner loop of _wrap_chunks: the chunks that fit on the line.
RECURSIVE Fill(_, _, _, _)
Fill(chunks, width, cur, curlen) ==
    IF chunks # <<>> /\ curlen + Len(Head(chunks)) <= width
    THEN Fill(Tail(chunks), width, Append(cur, Head(chunks)), curlen + Len(Head(chunks)))
    ELSE [cur |-> cur, len |-> curlen, rest |-> chunks]

\* The mutant of HandleLongWord (break_long_words=False): a chunk longer
\* than the width goes on a line of its own, whole.
KeepLongWord(f, width) ==
    IF f.rest # <<>> /\ Len(Head(f.rest)) > width /\ f.cur = <<>>
    THEN [cur |-> <<Head(f.rest)>>, len |-> Len(Head(f.rest)), rest |-> Tail(f.rest)]
    ELSE f

\* _handle_long_word: a chunk longer than the width is cut to fill the line.
HandleLongWord(f, width) ==
    IF f.rest # <<>> /\ Len(Head(f.rest)) > width
    THEN LET space_left == width - f.len
         IN  [cur |-> Append(f.cur, SubSeq(Head(f.rest), 1, space_left)),
              len |-> f.len + space_left,
              rest |-> <<SubSeq(Head(f.rest), space_left + 1, Len(Head(f.rest)))>>
                       \o Tail(f.rest)]
    ELSE f

\* A line without its last chunk when that chunk is blank.
DropBlankEnd(cur) ==
    IF cur # <<>> /\ IsBlank(Last(cur)) THEN SubSeq(cur, 1, Len(cur) - 1) ELSE cur

\* _wrap_chunks: the outer loop, with the lines made so far.
RECURSIVE WrapChunks(_, _, _)
WrapChunks(chunks, width, lines) ==
    IF chunks = <<>> THEN lines
    ELSE LET rest0 == IF IsBlank(Head(chunks)) /\ lines # <<>> THEN Tail(chunks) ELSE chunks
             f == HandleLongWord(Fill(rest0, width, <<>>, 0), width)
             cur == DropBlankEnd(f.cur)
         IN  WrapChunks(f.rest, width, IF cur # <<>> THEN Append(lines, Concat(cur)) ELSE lines)

\* textwrap.wrap(text, width)
Wrap(txt, width) == WrapChunks(SplitChunks(txt), width, <<>>)

\* textwrap.wrap(display, width) if display.strip() else [""]
WrapDisplay(txt, width) == IF IsBlank(txt) THEN <<<<>>>> ELSE Wrap(txt, width)

Spaces(n) == [k \in 1..n |-> " "]
Separator == <<" ", " ">>

\* indent = " " * (len(ts_str) + len(separator))
Indent(ts) == Spaces(Len(ts) + Len(Separator))

\* The mutant of TextWidth: no floor of 20 columns.
TextWidthNoFloor(width, indent) == IF width - Len(indent) > 1 THEN width - Len(indent) ELSE 1

\* text_width = max(term_width - len(indent), 20)
TextWidth(width, indent) == IF width - Len(indent) > 20 THEN width - Len(indent) ELSE 20

\* The lines of the result with the timestamp before the first of them.
Prefixed(ts, lines) ==
    [k \in 1..Len(lines) |-> (IF k = 1 THEN ts \o Separator ELSE Indent(ts)) \o lines[k]]

(***************************************************************************)
(* The inputs of the model: texts put together from a few fragments, the   *)
(* characters the four strategies tell apart (braces, brackets, commas,    *)
(* line breaks, blanks, a digit, a letter of noise) and one whole object.  *)
(* MaxFrags bounds the number of fragments of a text.                      *)
(***************************************************************************)
MaxFrags == 4

\* {"a":{}}: an object that holds an object.
FragObj == <<"{", QUOTE, "a", QUOTE, ":", "{", "}", "}">>
Fragments == {FragObj, <<"{">>, <<"}">>, <<"[">>, <<"]">>, <<",">>, <<NL>>, <<" ">>, <<"x">>, <<"1">>}

Texts == {Concat(fs) : fs \in UNION {[1..n -> Fragments] : n \in 0..MaxFrags}}

(***************************************************************************)
(* The inputs of format_record: display texts of up to MaxDisplayFrags     *)
(* fragments (a letter, a blank, a word of twelve letters) and the text of *)
(* the documented example; display and timestamp values of every kind;     *)
(* word limits up to MaxTrim; narrow and wide terminals; three time zones. *)
(* Timestamps stay within the integers TLC has (32 bits).                  *)
(***************************************************************************)
MaxDisplayFrags == 4
MaxTrim == 3

DisplayFrags == {<<"a">>, <<" ">>, [k \in 1..12 |-> "b"]}
DisplayTexts == {Concat(fs) : fs \in UNION {[1..n -> DisplayFrags] : n \in 0..MaxDisplayFrags}}

\* "one two three four five"
ExampleDisplay ==
    <<"o", "n", "e", " ", "t", "w", "o", " ", "t", "h", "r", "e", "e", " ",
      "f", "o", "u", "r", " ", "f", "i", "v", "e">>

\* "one two three..."
ExampleTrimmed ==
    <<"o", "n", "e", " ", "t", "w", "o", " ", "t", "h", "r", "e", "e", ".", ".", ".">>

DisplayValues ==
    {Tagged("str", t, 0) : t \in DisplayTexts \cup {ExampleDisplay}}
        \cup {Absent, Tagged("int", <<>>, 5), Tagged("null", <<>>, 0),
              Tagged("list", <<"[", "1", "]">>, 0)}

TimestampValues ==
    {Absent, Tagged("int", <<>>, 0), Tagged("int", <<>>, -1), Tagged("int", <<>>, 1234567890),
     Tagged("str", <<"1", "2">>, 0), Tagged("str", <<"a", "b">>, 0),
     Tagged("null", <<>>, 0), Tagged("list", <<"[", "1", "]">>, 0)}

UtcOffsets == {0, -18000, 19800}
TermWidths == {3, 8, 47, 50}
NoTrim == [set |-> FALSE, n |-> 0]
Trims == {NoTrim} \cup {[set |-> TRUE, n |-> k] : k \in 1..MaxTrim}

(***************************************************************************)
(* extract_records: what each strategy yields on a text.  A strategy's     *)
(* outcome is [st, recs]: "ok" with the list it returns, "none" when it    *)
(* falls through, "rec" when a decode inside it raises RecursionError.     *)
(***************************************************************************)
Outcome(st, recs) == [st |-> st, recs |-> recs]

\* Strategy 1: json.loads(text); a list is returned as it is, a dict alone.
Strategy1(s) ==
    LET r == json_loads(s)
    IN  IF r.st = "rec" THEN Outcome("rec", <<>>)
        ELSE IF r.st = "ok" /\ r.val.type = "list" THEN Outcome("ok", r.val.items)
        ELSE IF r.st = "ok" /\ r.val.type = "dict" THEN Outcome("ok", <<r.val>>)
        ELSE Outcome("none", <<>>)

\* Strategy 2: json.loads("[" + text.strip().rstrip(",") + "]").
Strategy2(s) ==
    LET r == json_loads(<<"[">> \o Cleanup(s) \o <<"]">>)
    IN  IF r.st = "rec" THEN Outcome("rec", <<>>)
        ELSE IF r.st = "ok" /\ r.val.type = "list" THEN Outcome("ok", r.val.items)
        ELSE Outcome("none", <<>>)

\* The loop of strategy 3 over the lines from the k-th on.
RECURSIVE LinesLoop(_, _, _)
LinesLoop(lines, k, recs) ==
    IF k > Len(lines) THEN Outcome("ok", recs)
    ELSE LET line == Cleanup(lines[k])
             r == json_loads(line)
         IN  IF line = <<>> THEN LinesLoop(lines, k + 1, recs)
             ELSE IF r.st = "rec" THEN Outcome("rec", <<>>)
             ELSE IF r.st = "ok" /\ r.val.type = "dict"
                  THEN LinesLoop(lines, k + 1, Append(recs, r.val))
             ELSE LinesLoop(lines, k + 1, recs)

\* Strategy 3: the objects on the lines of the text, if there is one.
Strategy3(s) ==
    LET r == LinesLoop(SplitLines(s), 1, <<>>)
    IN  IF r.st = "ok" /\ r.recs = <<>> THEN Outcome("none", <<>>) ELSE r

\* re.search(r"\{", text[pos:]): the offset of the first "{" at or after
\* pos, or -1.
RECURSIVE FindBrace(_, _)
FindBrace(s, p) ==
    IF p >= Len(s) THEN -1 ELSE IF At(s, p) = "{" THEN p ELSE FindBrace(s, p + 1)

\* One turn of the loop of strategy 4 at position p: "stop" when the loop
\* ends, else the "{" found and the decode attempted there.
BraceStep(s, p) ==
    LET start == FindBrace(s, p)
    IN  IF p >= Len(s) \/ start < 0
        THEN [kind |-> "stop", start |-> -1, r |-> Err]
        ELSE [kind |-> "decode", start |-> start, r |-> raw_decode(s, start)]

\* Mutants of NextPos: one character forward after a success too; no
\* step forward after a failure.
NextPosByOne(step) == step.start + 1
NextPosStay(step) == IF step.r.st = "ok" THEN step.r.end ELSE step.start

\* The position after a turn: the end of the decoded value, or one past
\* the "{" whose decode failed.
NextPos(step) == IF step.r.st = "ok" THEN step.r.end ELSE step.start + 1

\* Strategy 4 run from position p with the objects recs collected so far.
RECURSIVE BraceScan(_, _, _)
BraceScan(s, p, recs) ==
    LET step == BraceStep(s, p)
    IN  IF step.kind = "stop" THEN Outcome("ok", recs)
        ELSE IF step.r.st = "rec" THEN Outcome("rec", <<>>)
        ELSE BraceScan(s, NextPos(step),
                       IF step.r.st = "ok" /\ step.r.val.type = "dict"
                       THEN Append(recs, step.r.val) ELSE recs)

Strategy4(s) == BraceScan(s, 0, <<>>)

(***************************************************************************)
(* extract_records as a state machine: pc is the strategy about to run,    *)
(* "done" after a return, "raised" after an exception left the function.   *)
(***************************************************************************)
VARIABLES text, pc, result, via, records, pos, tried, spans,
          display, timestamp, term_width, trim, show_timestamp, utcoff,
          fpc, disp, ts_str, wrap_width, lines, out

evars == <<text, pc, result, via, records, pos, tried, spans>>
fvars == <<display, timestamp, term_width, trim, show_timestamp, utcoff,
           fpc, disp, ts_str, wrap_width, lines, out>>
vars == <<evars, fvars>>

\* format_record is not running.
FormatIdle ==
    /\ display = Absent
    /\ timestamp = Absent
    /\ term_width = 0
    /\ trim = NoTrim
    /\ show_timestamp = TRUE
    /\ utcoff = 0
    /\ fpc = "idle"
    /\ disp = <<>>
    /\ ts_str = <<>>
    /\ wrap_width = 0
    /\ lines = <<>>
    /\ out = <<>>

\* extract_records is not running.
ExtractIdle ==
    /\ text = <<>>
    /\ pc = "idle"
    /\ result = <<>>
    /\ via = 0
    /\ records = <<>>
    /\ pos = 0
    /\ tried = <<>>
    /\ spans = <<>>

Init ==
    /\ text \in Texts
    /\ pc = "s1"
    /\ result = <<>>
    /\ via = 0
    /\ records = <<>>
    /\ pos = 0
    /\ tried = <<>>
    /\ spans = <<>>
    /\ FormatIdle

\* return recs, from strategy k
Return(k, recs) ==
    /\ pc' = "done"
    /\ result' = recs
    /\ via' = k

Raise ==
    /\ pc' = "raised"
    /\ UNCHANGED <<result, via>>

\* Lines 67-74.
TryDirect ==
    /\ pc = "s1"
    /\ LET o == Strategy1(text)
       IN  \/ o.st = "ok" /\ Return(1, o.recs)
           \/ o.st = "none" /\ pc' = "s2" /\ UNCHANGED <<result, via>>
           \/ o.st = "rec" /\ Raise
    /\ UNCHANGED <<text, records, pos, tried, spans, fvars>>

\* Lines 79-84.
TryWrap ==
    /\ pc = "s2"
    /\ LET o == Strategy2(text)
       IN  \/ o.st = "ok" /\ Return(2, o.recs)
           \/ o.st = "none" /\ pc' = "s3" /\ UNCHANGED <<result, via>>
           \/ o.st = "rec" /\ Raise
    /\ UNCHANGED <<text, records, pos, tried, spans, fvars>>

\* The mutant of TryLines: returns the list of strategy 3 even when empty.
TryLinesAlways ==
    /\ pc = "s3"
    /\ LET o == Strategy3(text)
       IN  \/ o.st \in {"ok", "none"} /\ Return(3, o.recs)
           \/ o.st = "rec" /\ Raise
    /\ UNCHANGED <<text, records, pos, tried, spans, fvars>>

\* Lines 88-100.
TryLines ==
    /\ pc = "s3"
    /\ LET o == Strategy3(text)
       IN  \/ o.st = "ok" /\ Return(3, o.recs)
           \/ o.st = "none" /\ pc' = "s4" /\ UNCHANGED <<result, via>>
           \/ o.st = "rec" /\ Raise
    /\ UNCHANGED <<text, records, pos, tried, spans, fvars>>

\* Lines 106-109 and 119: the loop ends and the collected objects are returned.
ScanStop ==
    /\ pc = "s4"
    /\ BraceStep(text, pos).kind = "stop"
    /\ Return(4, records)
    /\ UNCHANGED <<text, records, pos, tried, spans, fvars>>

\* Lines 110-117: one decode attempt at the next "{".
ScanDecode ==
    /\ pc = "s4"
    /\ LET step == BraceStep(text, pos)
       IN  /\ step.kind = "decode"
           /\ tried' = Append(tried, step.start)
           /\ \/ /\ step.r.st = "ok"
                 /\ records' = IF step.r.val.type = "dict"
                               THEN Append(records, step.r.val) ELSE records
                 /\ spans' = Append(spans, <<step.start, step.r.end>>)
                 /\ pos' = NextPos(step)
                 /\ UNCHANGED <<pc, result, via>>
              \/ /\ step.r.st = "err"
                 /\ pos' = NextPos(step)
                 /\ UNCHANGED <<pc, result, via, records, spans>>
              \/ /\ step.r.st = "rec"
                 /\ Raise
                 /\ UNCHANGED <<records, spans, pos>>
    /\ UNCHANGED <<text, fvars>>

Next == TryDirect \/ TryWrap \/ TryLines \/ ScanStop \/ ScanDecode

Spec == Init /\ [][Next]_vars

(***************************************************************************)
(* format_record as a state machine: fpc is the step about to run, "done"  *)
(* after the return, "raised" after an exception left the function.  out   *)
(* is the string returned.  The record's timestamp and the time zone of    *)
(* the process are chosen when line 48 reads them.                         *)
(***************************************************************************)
FormatInit ==
    /\ ExtractIdle
    /\ display \in DisplayValues
    /\ term_width \in TermWidths
    /\ trim \in Trims
    /\ show_timestamp \in BOOLEAN
    /\ timestamp = Absent
    /\ utcoff = 0
    /\ fpc = "display"
    /\ disp = <<>>
    /\ ts_str = <<>>
    /\ wrap_width = 0
    /\ lines = <<>>
    /\ out = <<>>

\* Line 39.
ResolveDisplay ==
    /\ fpc = "display"
    /\ disp' = Str(Get(display, Tagged("str", <<>>, 0)))
    /\ fpc' = "trim"
    /\ UNCHANGED <<display, timestamp, term_width, trim, show_timestamp, utcoff,
                   ts_str, wrap_width, lines, out, evars>>

\* Lines 41-42.
TrimDisplay ==
    /\ fpc = "trim"
    /\ disp' = IF trim.set THEN trim_words(disp, trim.n) ELSE disp
    /\ fpc' = "layout"
    /\ UNCHANGED <<display, timestamp, term_width, trim, show_timestamp, utcoff,
                   ts_str, wrap_width, lines, out, evars>>

\* Lines 44-46.
LayoutPlain ==
    /\ fpc = "layout"
    /\ ~show_timestamp
    /\ wrap_width' = term_width
    /\ lines' = WrapDisplay(disp, term_width)
    /\ out' = Join(lines', <<NL>>)
    /\ fpc' = "done"
    /\ UNCHANGED <<display, timestamp, term_width, trim, show_timestamp, utcoff,
                   disp, ts_str, evars>>

\* Lines 48-58.
LayoutTimestamp ==
    /\ fpc = "layout"
    /\ show_timestamp
    /\ \E ts \in TimestampValues, off \in UtcOffsets :
          LET p == parse_timestamp(Get(ts, Tagged("int", <<>>, 0)), off)
          IN  /\ timestamp' = ts
              /\ utcoff' = off
              /\ \/ /\ p.ok
                    /\ ts_str' = p.str
                    /\ wrap_width' = TextWidth(term_width, Indent(p.str))
                    /\ lines' = WrapDisplay(disp, wrap_width')
                    /\ out' = Join(Prefixed(p.str, lines'), <<NL>>)
                    /\ fpc' = "done"
                 \/ /\ ~p.ok
                    /\ fpc' = "raised"
                    /\ UNCHANGED <<ts_str, wrap_width, lines, out>>
    /\ UNCHANGED <<display, term_width, trim, show_timestamp, disp, evars>>

FormatNext == ResolveDisplay \/ TrimDisplay \/ LayoutPlain \/ LayoutTimestamp

FormatSpec == FormatInit /\ [][FormatNext]_vars

(***************************************************************************)
(* Properties of extract_records.                                          *)
(***************************************************************************)
NonEmptyYield(o) == o.st = "ok" /\ o.recs # <<>>
YieldsNothing(o) == ~NonEmptyYield(o)
IsNone(o) == o.st = "none"
EndsInTwoCommas(s) == Len(s) >= 2 /\ s[Len(s)] = "," /\ s[Len(s) - 1] = ","
IsDictLine(line) ==
    LET r == json_loads(Cleanup(line))
    IN  Cleanup(line) # <<>> /\ r.st = "ok" /\ r.val.type = "dict"

\* C1: extract_records never raises, whatever the text: no run of it
\* ends with an exception leaving the function.
C1_NeverRaises == pc # "raised"

\* C2, as stated: the result is that of the first strategy that yields a
\* non-empty result, and the empty sequence is returned only when all four
\* strategies yield nothing.
C2_FirstNonEmptyYield ==
    pc = "done" =>
        LET y1 == Strategy1(text)
            y2 == Strategy2(text)
            y3 == Strategy3(text)
            y4 == Strategy4(text)
        IN  /\ result = <<>> =>
                YieldsNothing(y1) /\ YieldsNothing(y2) /\ YieldsNothing(y3) /\ YieldsNothing(y4)
            /\ result # <<>> =>
                /\ via = 1 => result = y1.recs
                /\ via = 2 => YieldsNothing(y1) /\ result = y2.recs
                /\ via = 3 => YieldsNothing(y1) /\ YieldsNothing(y2) /\ result = y3.recs
                /\ via = 4 => YieldsNothing(y1) /\ YieldsNothing(y2) /\ YieldsNothing(y3)
                              /\ result = y4.recs

\* C2, amended: the strategies run in order and the first that succeeds
\* returns: strategy 1 when the text parses to an array or an object and
\* strategy 2 when the wrapped text parses to an array (an empty array
\* included), strategy 3 when it found an object, strategy 4 otherwise.  No
\* later strategy is consulted after a return, and the empty sequence is
\* returned when strategy 1 or 2 parsed an empty array or when no strategy
\* yields anything.
C2_FirstSuccessReturns ==
    pc = "done" =>
        LET y1 == Strategy1(text)
            y2 == Strategy2(text)
            y3 == Strategy3(text)
            y4 == Strategy4(text)
        IN  /\ via \in 1..4
            /\ via = 1 => y1.st = "ok" /\ result = y1.recs
            /\ via = 2 => IsNone(y1) /\ y2.st = "ok" /\ result = y2.recs
            /\ via = 3 => IsNone(y1) /\ IsNone(y2) /\ NonEmptyYield(y3) /\ result = y3.recs
            /\ via = 4 => IsNone(y1) /\ IsNone(y2) /\ IsNone(y3) /\ y4.st = "ok"
                          /\ result = y4.recs
            /\ via < 4 => tried = <<>> /\ pos = 0 /\ records = <<>>
            /\ result = <<>> =>
                \/ via \in {1, 2}
                \/ YieldsNothing(y1) /\ YieldsNothing(y2) /\ YieldsNothing(y3) /\ YieldsNothing(y4)

\* The first three strategies fell through and the brace scan returned objects.
C2_Witness == pc = "done" /\ via = 4 /\ result # <<>>

\* C3: every element of the returned sequence is a JSON object.
C3_AllRecordsAreObjects == pc = "done" => \A k \in 1..Len(result) : result[k].type = "dict"

\* C4: the brace scan returns exactly the objects that decode at a "{" the
\* forward scan found, in increasing order of start and without overlap.
C4_BraceScanObjects ==
    pc \in {"s4", "done"} =>
        /\ Len(records) = Len(spans)
        /\ \A k \in 1..Len(spans) :
              LET r == raw_decode(text, spans[k][1])
              IN  /\ At(text, spans[k][1]) = "{"
                  /\ r.st = "ok" /\ r.val.type = "dict"
                  /\ r.end = spans[k][2]
                  /\ records[k] = r.val
                  /\ records[k].raw = Slice(text, spans[k][1], spans[k][2])
                  /\ spans[k][1] < spans[k][2]
        /\ \A k \in 1..(Len(spans) - 1) : spans[k][2] <= spans[k + 1][1]
        /\ \A k \in 1..Len(tried) :
              raw_decode(text, tried[k]).st = "ok" => \E j \in 1..Len(spans) : spans[j][1] = tried[k]
        /\ (pc = "done" /\ via = 4) => result = records

\* Noise, an object, noise, an object: the two objects, in order.
C4_Witness ==
    /\ pc = "done" /\ via = 4
    /\ text = <<"x">> \o FragObj \o <<"x">> \o FragObj
    /\ Len(result) = 2 /\ result[1].raw = FragObj /\ result[2].raw = FragObj
    /\ spans = <<<<1, 9>>, <<10, 18>>>>

\* C9: every turn of the brace scan either leaves the function or moves the
\* position strictly forward, to the end of the decoded value or to one
\* past the "{" whose decode failed; the loop stops only with no "{" left
\* or the position at the end; no "{" is tried twice, so there are at most
\* len(text) decode attempts.
C9_ForwardProgress ==
    [][pc = "s4" =>
        /\ \/ /\ pc' = "done"
              /\ pos >= Len(text) \/ \A p \in pos..(Len(text) - 1) : At(text, p) # "{"
           \/ pc' = "raised"
           \/ /\ pc' = "s4"
              /\ pos' > pos /\ pos' <= Len(text)
              /\ LET start == Last(tried')
                     r == raw_decode(text, start)
                 IN  /\ start >= pos /\ At(text, start) = "{"
                     /\ \A p \in pos..(start - 1) : At(text, p) # "{"
                     /\ pos' = IF r.st = "ok" THEN r.end ELSE start + 1
              /\ Len(tried') = Len(tried) + 1
        /\ \A k \in 1..(Len(tried') - 1) : tried'[k] < tried'[k + 1]
        /\ Len(tried') <= Len(text)]_vars

\* A decode failed at one "{" and succeeded at a later one.
C9_Witness ==
    /\ pc = "done" /\ via = 4
    /\ Len(tried) >= 2 /\ Len(spans) = 1 /\ spans[1][1] = tried[2]
    /\ raw_decode(text, tried[1]).st = "err"

\* C10: the cleanup of strategies 2 and 3 removes one trailing comma at
\* most, so a text or a line whose trimmed form ends in two commas is not
\* accepted by the strategy's parse.
C10_SingleCommaOnly ==
    pc = "done" =>
        /\ via = 2 => ~EndsInTwoCommas(Strip(text))
        /\ via = 3 => \A k \in 1..Len(SplitLines(text)) :
                         EndsInTwoCommas(Strip(SplitLines(text)[k]))
                             => ~IsDictLine(SplitLines(text)[k])
(***************************************************************************)
(* Properties of format_record.                                            *)
(***************************************************************************)
\* The words of the lines, in order.
RECURSIVE WordsOfLines(_)
WordsOfLines(ls) == IF ls = <<>> THEN <<>> ELSE SplitWords(Head(ls)) \o WordsOfLines(Tail(ls))

AllWordsFit(txt, width) == \A k \in 1..Len(SplitWords(txt)) : Len(SplitWords(txt)[k]) <= width
SingleSpaced(txt) == \A k \in 1..(Len(txt) - 1) : ~(txt[k] = " " /\ txt[k + 1] = " ")
Max(a, b) == IF a > b THEN a ELSE b

\* C5: format_record never errors on a record with malformed fields: no
\* run of it ends with an exception leaving the function.
C5_NeverErrors == fpc # "raised"

C7_TrimOnlyWhenLonger ==
    fpc \in {"layout", "done", "raised"} =>
        LET txt == Str(Get(display, Tagged("str", <<>>, 0)))
            words == SplitWords(txt)
        IN  /\ ~trim.set => disp = txt
            /\ (trim.set /\ Len(words) <= trim.n) => disp = txt
            /\ (trim.set /\ Len(words) > trim.n) =>
                  /\ disp = Join(SubSeq(words, 1, trim.n), <<" ">>) \o <<".", ".", ".">>
                  /\ Len(SplitWords(disp)) = trim.n
            /\ (trim.set /\ trim.n = 3 /\ txt = ExampleDisplay) => disp = ExampleTrimmed

\* The documented example, trimmed to three words.
C7_Witness ==
    /\ fpc = "done"
    /\ display = Tagged("str", ExampleDisplay, 0)
    /\ trim = [set |-> TRUE, n |-> 3]
    /\ disp = ExampleTrimmed

\* C8: with the timestamp shown the text is wrapped to
\* max(term_width - (len(ts_str) + 2), 20) columns, the first line follows
\* the timestamp and two blanks, every other line follows len(ts_str) + 2
\* blanks and starts in the same column; without it the text is wrapped to
\* term_width and no line has a prefix.
C8_TimestampLayout ==
    fpc = "done" =>
        /\ show_timestamp =>
              /\ ts_str = parse_timestamp(Get(timestamp, Tagged("int", <<>>, 0)), utcoff).str
              /\ wrap_width = Max(term_width - (Len(ts_str) + 2), 20)
              /\ lines = WrapDisplay(disp, wrap_width)
              /\ out = Join([k \in 1..Len(lines) |->
                                IF k = 1 THEN ts_str \o <<" ", " ">> \o lines[k]
                                ELSE Spaces(Len(ts_str) + 2) \o lines[k]], <<NL>>)
              /\ \A k \in 2..Len(lines) : lines[k] # <<>> /\ lines[k][1] # " "
        /\ ~show_timestamp =>
              /\ wrap_width = term_width
              /\ lines = WrapDisplay(disp, term_width)
              /\ out = Join(lines, <<NL>>)

\* A text wrapped to the floor of 20 columns after its timestamp.
C8_Witness ==
    /\ fpc = "done"
    /\ show_timestamp
    /\ Len(lines) >= 2
    /\ term_width - (Len(ts_str) + 2) < 20
    /\ wrap_width = 20
=============================================================================
